---- MODULE Spec2Model ----
(***************************************************************************)
(* Model of python/StreamReader.py: the live-capture session               *)
(* (StreamReader), its per-frame segment tracking (getNewFrame), the       *)
(* background file mover (StreamReader.ThreadedFileMover) and the close    *)
(* sequence.  The polling thread is one sequential process whose handlers  *)
(* are split only where the code blocks on the mover thread                *)
(* (Thread.join) or reads Thread.isAlive after Thread.start; the mover     *)
(* thread advances through run() one external call at a time.              *)
(***************************************************************************)
EXTENDS Integers, Sequences, FiniteSets, TLC

\* ---------------------------------------------------------------- bounds
\* number of get_new_frame calls that deliver a frame or find the stream stopped
MaxPolls == 3

\* ------------------------------------------------- strings and os.path
\* Strings are sequences of one-character strings, so that lower(),
\* slicing and os.path.join/split are computed and not assumed.
sep == "/"

LowerChar(c) ==
    CASE c = "B" -> "b"
      [] c = "C" -> "c"
      [] c = "M" -> "m"
      [] OTHER -> c

lower(s) == [i \in DOMAIN s |-> LowerChar(s[i])]

\* os.path.join(a, b) for two components
join(a, b) ==
    IF b /= <<>> /\ Head(b) = sep THEN b
    ELSE IF a = <<>> \/ a[Len(a)] = sep THEN a \o b
    ELSE a \o <<sep>> \o b

RECURSIVE LastSep(_, _)
LastSep(s, i) ==
    IF i = 0 THEN 0
    ELSE IF s[i] = sep THEN i
    ELSE LastSep(s, i - 1)

\* os.path.split(p)[1]
basename(p) == SubSeq(p, LastSep(p, Len(p)) + 1, Len(p))

\* the slice length of self._curFilename[:5]
DirPrefixLen == 5

prefix(s) == SubSeq(s, 1, IF Len(s) < DirPrefixLen THEN Len(s) ELSE DirPrefixLen)

\* ------------------------------------------------------- the environment
\* StreamReader(name=...): the camera location name
locationName == <<"C", "m">>

\* full paths of the segment files the adapter reports (record dir "r/")
Filenames ==
    { <<"r", "/", "a", "1">>,
      <<"r", "/", "B", "2", "x", "y", "z", "w">> }

\* the processing size the adapter reports for an open stream
ProcSize == <<4, 3>>

\* a NULL result of get_new_frame
NoFrame == [null |-> TRUE]

\* flush's argument msNeeded: None, the default, or a time in ms
None == [none |-> TRUE]

Ms(n) == [none |-> FALSE, ms |-> n]

\* the msNeeded arguments a client gives to flush
MsNeeded == {None, Ms(1), Ms(2)}

\* the last call was no flush
NoFlush == <<>>

\* no url
NoUrl == <<>>


VARIABLES
    \* StreamReader fields
    stream,            \* _stream: "None", "Null" (c_void_p(0)), "Open", "Freed"
    isRunning,
    prevFilename, prevDirPath, curFilePath, curFilename, curDirPath,
    curStartMs, curLastMs,
    isMmapLargeView, mmapViewWidth, mmapViewHeight, mmapViewFps,
    cachedProcSize,
    moverThread,       \* _moverThread: 0 is None, else an index into threads
    clipManager,       \* whether a clip manager was passed to the constructor
    \* the world outside the session object
    threads,           \* every ThreadedFileMover ever started, in start order
    index,             \* the clip index: the addClip calls, in call order
    moveFailedCalls,   \* the moveFailedCallback calls, in call order
    \* the polling thread
    pc,                \* where the polling thread stands
    call,              \* the open, close or getNewFrame in progress or last finished
    result,            \* get_new_frame's result held across a close()
    killableCallback,  \* whether close() was given a killableCallback
    ret,               \* the value that call returned
    closeLog,          \* the steps of the close() in progress or last finished
    closeEntry,        \* whether that close() was entered with a stream handle
    closeMid,          \* whether that close() was entered after a frame of the session
    flushLog,          \* the last call if it was a flush: its msNeeded, and
                       \* whether it reached flush_output
    nPolls,            \* the frames delivered so far: the adapter's clock
    \* what the adapter has reported, counted apart from the session's fields
    lastSeen,          \* the filename of the session's last delivered frame
    transitions,       \* delivered frames whose filename differs from the one before
    finals,            \* close() calls entered after a frame of the session
    seenFirstMs,       \* the timestamp of the first delivered frame of the file lastSeen
    seenLastMs,        \* the timestamp of the session's last delivered frame
    prevSeenFirstMs,   \* the timestamps of the first and of the last delivered
    prevSeenLastMs,    \* frame of the file delivered before the file lastSeen
    \* ClipReader fields
    firstReader, randReader, seqReader,  \* 0 is None, else an index into readers
    path,              \* None or the clip given to open
    width, height,
    prevMs, readerPrevMs, isDone,
    duration, msList,  \* _duration, _msList: None or the cached value
    \* the world outside the ClipReader object
    readers,           \* every FfMpegClipReader that opened the clip, in order
    \* what has happened since the last open()
    allocs,            \* the FfMpegClipReader objects that opened the clip
    allocFailed,       \* whether an _allocReader returned None
    modes,             \* which of _getSeqReader and _getRandReader were called
    \* a call of StreamReader._avoidBlankPasswordBug
    url,               \* its argument
    fixed              \* None, or what the call returned or raised

segVars == <<prevFilename, prevDirPath, curFilePath, curFilename, curDirPath,
             curStartMs, curLastMs>>

mmapVars == <<isMmapLargeView, mmapViewWidth, mmapViewHeight, mmapViewFps>>

sessionVars == <<stream, isRunning, segVars, mmapVars, cachedProcSize, moverThread>>

worldVars == <<threads, index, moveFailedCalls>>

closeVars == <<killableCallback, closeLog, closeEntry, closeMid, flushLog>>

obsVars == <<lastSeen, transitions, finals, seenFirstMs, seenLastMs,
             prevSeenFirstMs, prevSeenLastMs>>

pollVars == <<pc, call, result, ret, closeVars, nPolls, obsVars>>

clipVars == <<firstReader, randReader, seqReader, path, width, height, prevMs,
              readerPrevMs, isDone, duration, msList, readers, allocs,
              allocFailed, modes>>

\* StreamFrameStruct, the fields getNewFrame reads, as an adapter delivers
\* them whose timestamps follow its frame count
Frames == [null : {FALSE}, ms : {nPolls}, filename : Filenames, isRunning : {0, 1}]

\* the timestamps an adapter may report
Timestamps == 0 .. MaxPolls - 1

\* StreamFrameStruct as an adapter delivers it whose timestamps are in no
\* order: getNewFrame copies result.contents.ms and compares it with nothing
FramesAnyClock ==
    [null : {FALSE}, ms : Timestamps, filename : Filenames, isRunning : {0, 1}]

urlVars == <<url, fixed>>

\* the state of the capture session and of its world
streamVars == <<sessionVars, clipManager, worldVars, pollVars>>

vars == <<streamVars, clipVars, urlVars>>

\* ------------------------------------------------------------------ Init
\* StreamReader.__init__ followed by _initVariables
InitObjects ==
    /\ stream = "None"
    /\ isRunning = FALSE
    /\ prevFilename = <<>> /\ prevDirPath = <<>>
    /\ curFilePath = <<>> /\ curFilename = <<>> /\ curDirPath = <<>>
    /\ curStartMs = 0 /\ curLastMs = 0
    /\ isMmapLargeView = FALSE
    /\ mmapViewWidth = 0 /\ mmapViewHeight = 0 /\ mmapViewFps = 0
    /\ cachedProcSize = <<0, 0>>
    /\ moverThread = 0
    /\ clipManager \in BOOLEAN
    /\ threads = <<>>
    /\ index = <<>>
    /\ moveFailedCalls = <<>>
    /\ pc = "idle"
    /\ call = "init"
    /\ result = NoFrame
    /\ killableCallback = FALSE
    /\ ret = "None"
    /\ closeLog = <<>>
    /\ closeEntry = FALSE
    /\ closeMid = FALSE
    /\ flushLog = NoFlush
    /\ nPolls = 0
    /\ lastSeen = <<>>
    /\ transitions = 0
    /\ finals = 0
    /\ seenFirstMs = 0 /\ seenLastMs = 0
    /\ prevSeenFirstMs = 0 /\ prevSeenLastMs = 0
    \* ClipReader.__init__ followed by _reset
    /\ firstReader = 0 /\ randReader = 0 /\ seqReader = 0
    /\ path = None
    /\ width = 0 /\ height = 0
    /\ prevMs = -1 /\ readerPrevMs = -1
    /\ isDone = FALSE
    /\ duration = None /\ msList = None
    /\ readers = <<>>
    /\ allocs = 0
    /\ allocFailed = FALSE
    /\ modes = {}

\* a session, a ClipReader, and no call of _avoidBlankPasswordBug
Init == InitObjects /\ url = NoUrl /\ fixed = None

\* faulty variant: the segment fields outlive the reset
InitVariablesKeepsSegment ==
    /\ stream' = "None"
    /\ isRunning' = FALSE
    /\ prevFilename' = curFilename /\ prevDirPath' = curDirPath
    /\ curFilePath' = <<>> /\ curFilename' = <<>> /\ curDirPath' = <<>>
    /\ curStartMs' = 0 /\ curLastMs' = 0
    /\ isMmapLargeView' = FALSE
    /\ mmapViewWidth' = 0 /\ mmapViewHeight' = 0 /\ mmapViewFps' = 0

\* _initVariables
InitVariables ==
    /\ stream' = "None"
    /\ isRunning' = FALSE
    /\ prevFilename' = <<>> /\ prevDirPath' = <<>>
    /\ curFilePath' = <<>> /\ curFilename' = <<>> /\ curDirPath' = <<>>
    /\ curStartMs' = 0 /\ curLastMs' = 0
    /\ isMmapLargeView' = FALSE
    /\ mmapViewWidth' = 0 /\ mmapViewHeight' = 0 /\ mmapViewFps' = 0

\* ------------------------------------------------------ ThreadedFileMover
\* Thread.isAlive(): from start() until run() has returned
isAlive(t) == t.pc /= "dead"

\* the mover the session holds is still running
MoverAlive == moverThread /= 0 /\ isAlive(threads[moverThread])

\* getProcSize(): the value returned and the cache it leaves behind
getProcSize == IF isRunning /\ stream = "Open" THEN ProcSize ELSE cachedProcSize

\* faulty variant: the segment handed over ends with the frame that
\* triggered the rollover
ThreadedFileMoverLate ==
    [ id           |-> Len(threads) + 1,
      curFilename  |-> curFilename,
      curDirPath   |-> curDirPath,
      prevDirPath  |-> prevDirPath,
      prevFilename |-> prevFilename,
      procSize     |-> getProcSize,
      curStartMs   |-> curStartMs,
      curLastMs    |-> IF result.null THEN curLastMs ELSE result.ms,
      capture      |-> finals + (IF pc = "gnf_submit" THEN 1 ELSE 0),
      pc           |-> "mkdir",
      mkdirOk      |-> TRUE,
      moved        |-> "pending",
      moveStat     |-> "nobody",
      commits      |-> 0 ]

\* ThreadedFileMover.__init__(owner): the copies taken from the owner
ThreadedFileMover ==
    [ id           |-> Len(threads) + 1,
      curFilename  |-> curFilename,
      curDirPath   |-> curDirPath,
      prevDirPath  |-> prevDirPath,
      prevFilename |-> prevFilename,
      procSize     |-> getProcSize,
      curStartMs   |-> curStartMs,
      curLastMs    |-> curLastMs,
      \* its capture: the close() calls so far that came after a frame, and
      \* one more on a rollover, the capture not being closed yet
      capture      |-> finals + (IF pc = "gnf_submit" THEN 1 ELSE 0),
      pc           |-> "mkdir",
      mkdirOk      |-> TRUE,       \* a local of run(): gone when run() returns
      moved        |-> "pending",
      moveStat     |-> "nobody",   \* who reported into _timeToMoveClipStat
      commits      |-> 0 ]

\* the path run() hands to moveFailedCallback
MoveFailedPath(t) == join(t.curDirPath, t.curFilename)

\* faulty variant: addFileToDb reads the timestamps from the session
addClipLive(t, who) ==
    [ path         |-> join(t.curDirPath, lower(t.curFilename)),
      locationName |-> locationName,
      startMs      |-> curStartMs,
      endMs        |-> curLastMs,
      prevFile     |-> IF t.prevFilename /= <<>>
                       THEN join(t.prevDirPath, t.prevFilename)
                       ELSE <<>>,
      width        |-> t.procSize[1],
      height       |-> t.procSize[2],
      job          |-> t.id,
      thread       |-> who ]

\* the arguments addFileToDb hands to clipManager.addClip
addClip(t, who) ==
    [ path         |-> join(t.curDirPath, lower(t.curFilename)),
      locationName |-> locationName,
      startMs      |-> t.curStartMs,
      endMs        |-> t.curLastMs,
      prevFile     |-> IF t.prevFilename /= <<>>
                       THEN join(t.prevDirPath, t.prevFilename)
                       ELSE <<>>,
      width        |-> t.procSize[1],
      height       |-> t.procSize[2],
      job          |-> t.id,
      thread       |-> who ]

\* faulty variant: a failure to create the target folder ends run()
MoverMkdirFatal ==
    \E i \in DOMAIN threads :
        /\ threads[i].pc = "mkdir"
        /\ \E ok \in BOOLEAN :
               threads' = [threads EXCEPT
                              ![i].pc = IF ok THEN "move" ELSE "dead",
                              ![i].moved = IF ok THEN "pending" ELSE "failed"]
        /\ UNCHANGED <<sessionVars, clipManager, clipVars, urlVars, index, moveFailedCalls, pollVars>>

\* run(), first part: create the target folder; a failure is only logged
MoverMkdir ==
    \E i \in DOMAIN threads :
        /\ threads[i].pc = "mkdir"
        /\ \E ok \in BOOLEAN :
               threads' = [threads EXCEPT ![i].pc = "move", ![i].mkdirOk = ok]
        /\ UNCHANGED <<sessionVars, clipManager, clipVars, urlVars, index, moveFailedCalls, pollVars>>

\* what a failed move leaves in the callback log
MoveFailed(i) ==
    Append(moveFailedCalls,
           [path |-> MoveFailedPath(threads[i]), job |-> i, thread |-> "mover"])

\* faulty variant: a failed move stops the session
MoverMoveFatal ==
    \E i \in DOMAIN threads :
        /\ threads[i].pc = "move"
        /\ \E ok \in BOOLEAN :
               /\ threads' = [threads EXCEPT
                                 ![i].pc = "dead",
                                 ![i].mkdirOk = TRUE,
                                 ![i].moved = IF ok THEN "ok" ELSE "failed",
                                 ![i].moveStat = "mover"]
               /\ moveFailedCalls' = IF ok THEN moveFailedCalls ELSE MoveFailed(i)
               /\ isRunning' = (ok /\ isRunning)
        /\ UNCHANGED <<stream, segVars, mmapVars, cachedProcSize, moverThread,
                       clipManager, clipVars, urlVars, index, pollVars>>

\* run(), second part: move the file (shutil.move or move_recorded_file);
\* on an exception log it and call moveFailedCallback; then report the
\* timing and return, after which the thread is dead
MoverMove ==
    \E i \in DOMAIN threads :
        /\ threads[i].pc = "move"
        /\ \E ok \in BOOLEAN :
               /\ threads' = [threads EXCEPT
                                 ![i].pc = "dead",
                                 ![i].mkdirOk = TRUE,
                                 ![i].moved = IF ok THEN "ok" ELSE "failed",
                                 ![i].moveStat = "mover"]
               /\ moveFailedCalls' = IF ok THEN moveFailedCalls ELSE MoveFailed(i)
        /\ UNCHANGED <<sessionVars, clipManager, clipVars, urlVars, index, pollVars>>

\* ------------------------------------------------------ the polling thread
\* faulty variant: the join is skipped
JoinSkipped == TRUE

\* Thread.join() has returned: the mover held by the session is dead
JoinReturned == ~MoverAlive

\* faulty variant: the return for a running mover is missing
FinalizesRunning(blockIfRunning) == moverThread /= 0

\* faulty variant: a finished mover is collected on the blocking path only
FinalizesBlocking(blockIfRunning) == moverThread /= 0 /\ blockIfRunning

\* _finalizeMoverThread(blockIfRunning) gets as far as addFileToDb
Finalizes(blockIfRunning) ==
    moverThread /= 0 /\ (blockIfRunning \/ ~MoverAlive)

\* faulty variant: addFileToDb is left out on the blocking path
FinalizedIndexNoBlock(blockIfRunning) ==
    IF Finalizes(blockIfRunning) /\ ~blockIfRunning
    THEN Append(index, addClip(threads[moverThread], "poll"))
    ELSE index

\* the clip index after _finalizeMoverThread(blockIfRunning)
FinalizedIndex(blockIfRunning) ==
    IF Finalizes(blockIfRunning)
    THEN Append(index, addClip(threads[moverThread], "poll"))
    ELSE index

\* the mover objects after _finalizeMoverThread(blockIfRunning)
FinalizedThreads(blockIfRunning) ==
    IF Finalizes(blockIfRunning)
    THEN [threads EXCEPT ![moverThread].commits = @ + 1]
    ELSE threads

\* faulty variant: self._moverThread is not cleared
FinalizedMoverKept(blockIfRunning) == moverThread

\* self._moverThread after _finalizeMoverThread(blockIfRunning)
FinalizedMover(blockIfRunning) ==
    IF Finalizes(blockIfRunning) THEN 0 ELSE moverThread

\* _finalizeMoverThread(blockIfRunning), once any join has returned
finalizeMoverThread(blockIfRunning) ==
    /\ index' = FinalizedIndex(blockIfRunning)
    /\ threads' = FinalizedThreads(blockIfRunning)
    /\ moverThread' = FinalizedMover(blockIfRunning)

\* faulty variant: the check of self._curFilename is missing
SubmitsAlways == clipManager

\* _addFileToDb does not return at its first line
Submits == curFilename /= <<>> /\ clipManager

\* _addFileToDb after the join: commit the previous mover, snapshot the
\* session into a new ThreadedFileMover and start it
addFileToDb ==
    /\ index' = FinalizedIndex(TRUE)
    /\ threads' = Append(FinalizedThreads(TRUE), ThreadedFileMover)
    /\ moverThread' = Len(threads) + 1
    /\ cachedProcSize' = getProcSize

\* faulty variant: flush_output is called whatever the state
FlushesAlways(msNeeded) == TRUE

\* faulty variant: a flush asked for the very start of the segment is dropped
FlushesAfterStart(msNeeded) ==
    /\ stream = "Open"
    /\ isRunning
    /\ (msNeeded.none \/ msNeeded.ms > curStartMs)

\* flush(msNeeded) reaches flush_output
Flushes(msNeeded) ==
    /\ stream = "Open"
    /\ isRunning
    /\ (msNeeded.none \/ msNeeded.ms >= curStartMs)

\* a call that is not close() begins: the record of the last close() is dropped
Begin(c) ==
    /\ call' = c
    /\ killableCallback' = FALSE
    /\ closeLog' = <<>>
    /\ closeEntry' = FALSE
    /\ closeMid' = FALSE

\* a call that is neither close() nor flush() begins
Enter(c) ==
    /\ Begin(c)
    /\ flushLog' = NoFlush

\* faulty variant: isRunning is cleared before the flush, which then does nothing
CloseFirstStepsStopFirst ==
    <<"notRunning">> \o (IF stream = "Open" THEN <<"free">> ELSE <<>>)

\* close(): self.flush(), self.isRunning = False, free_stream_data
CloseFirstSteps ==
    (IF Flushes(None) THEN <<"flush">> ELSE <<>>)
    \o <<"notRunning">>
    \o (IF stream = "Open" THEN <<"free">> ELSE <<>>)

\* faulty variant: close() does not hand the segment in progress to the mover
CloseThenDrain == "close_drain"

\* close(): if self._curFilename: self._addFileToDb(), else straight to
\* _terminateMoverThread()
CloseThen == IF curFilename /= <<>> /\ Submits THEN "close_submit" ELSE "close_drain"

\* close(), up to the join inside _addFileToDb or _terminateMoverThread:
\* flush, mark not running, free the stream handle
CloseStart(c, kc, res) ==
    /\ call' = c
    /\ killableCallback' = kc
    /\ closeLog' = CloseFirstSteps
    /\ closeEntry' = (stream = "Open")
    /\ closeMid' = (lastSeen /= <<>>)
    /\ flushLog' = NoFlush
    /\ finals' = IF lastSeen /= <<>> THEN finals + 1 ELSE finals
    /\ lastSeen' = <<>>
    /\ seenFirstMs' = 0 /\ seenLastMs' = 0
    /\ prevSeenFirstMs' = 0 /\ prevSeenLastMs' = 0
    /\ isRunning' = FALSE
    /\ stream' = IF stream = "Open" THEN "Freed" ELSE stream
    /\ pc' = CloseThen
    /\ result' = res
    /\ UNCHANGED <<segVars, mmapVars, cachedProcSize, moverThread, worldVars, ret,
                   transitions>>

\* close(killableCallback)
Close ==
    /\ pc = "idle"
    /\ \E kc \in BOOLEAN : CloseStart("close", kc, NoFrame)
    /\ UNCHANGED <<clipManager, clipVars, urlVars, nPolls>>

\* close(): self._addFileToDb() for the segment in progress
CloseSubmit ==
    /\ pc = "close_submit"
    /\ JoinReturned
    /\ addFileToDb
    /\ closeLog' = closeLog
                   \o (IF moverThread /= 0 THEN <<"commit">> ELSE <<>>)
                   \o <<"submit">>
    /\ pc' = "close_drain"
    /\ UNCHANGED <<stream, isRunning, segVars, mmapVars, clipManager, clipVars, urlVars,
                   moveFailedCalls, call, result, ret, killableCallback,
                   closeEntry, closeMid, flushLog, nPolls, obsVars>>

\* close(): _terminateMoverThread(), killableCallback(), _initVariables()
CloseDrain ==
    /\ pc = "close_drain"
    /\ JoinReturned
    /\ finalizeMoverThread(TRUE)
    /\ closeLog' = closeLog
                   \o (IF moverThread /= 0 THEN <<"commit">> ELSE <<>>)
                   \o (IF killableCallback THEN <<"kill">> ELSE <<>>)
                   \o <<"reset">>
    /\ InitVariables
    /\ pc' = CASE call = "close" -> "idle"
               [] call = "getNewFrame" -> "gnf_closed"
               [] call = "open" -> "open_stream"
    /\ ret' = IF call = "close" THEN "None" ELSE ret
    /\ UNCHANGED <<cachedProcSize, clipManager, clipVars, urlVars, moveFailedCalls, call, result,
                   killableCallback, closeEntry, closeMid, flushLog, nPolls, obsVars>>

\* getNewFrame: result.contents.filename != self._curFilePath
Rollover(res) == clipManager /\ res.filename /= curFilePath

\* getNewFrame, the lines after the rollover block: extend the segment,
\* collect a finished mover without blocking, return the frame
ReturnFrame(ms) ==
    /\ curLastMs' = ms
    /\ finalizeMoverThread(FALSE)
    /\ ret' = "Frame"
    /\ pc' = "idle"
    /\ result' = NoFrame

\* getNewFrame: begin the new segment (the assignments after _addFileToDb)
NewSegment(filePath, ms) ==
    /\ prevFilename' = curFilename
    /\ prevDirPath' = curDirPath
    /\ curFilename' = basename(filePath)
    /\ curDirPath' = lower(join(locationName, prefix(basename(filePath))))
    /\ curStartMs' = ms

\* getNewFrame for a delivered frame (result not NULL), up to the join
ProcessFrame(res) ==
    IF Rollover(res) /\ Submits
    THEN /\ curFilePath' = res.filename
         /\ result' = res
         /\ pc' = "gnf_submit"
         /\ UNCHANGED <<stream, isRunning, prevFilename, prevDirPath, curFilename,
                        curDirPath, curStartMs, curLastMs, mmapVars, cachedProcSize,
                        moverThread, worldVars, ret>>
    ELSE /\ IF Rollover(res)
            THEN curFilePath' = res.filename /\ NewSegment(res.filename, res.ms)
            ELSE UNCHANGED <<prevFilename, prevDirPath, curFilePath, curFilename,
                             curDirPath, curStartMs>>
         /\ ReturnFrame(res.ms)
         /\ UNCHANGED <<stream, isRunning, mmapVars, cachedProcSize, moveFailedCalls>>

\* the adapter has delivered a frame res
ObserveMs(res) ==
    /\ seenFirstMs' = IF res.filename /= lastSeen THEN res.ms ELSE seenFirstMs
    /\ seenLastMs' = res.ms
    /\ prevSeenFirstMs' = IF res.filename /= lastSeen THEN seenFirstMs ELSE prevSeenFirstMs
    /\ prevSeenLastMs' = IF res.filename /= lastSeen THEN seenLastMs ELSE prevSeenLastMs

\* the adapter has delivered a frame of the file f
Observe(f) ==
    /\ lastSeen' = f
    /\ transitions' = IF lastSeen /= <<>> /\ f /= lastSeen
                      THEN transitions + 1
                      ELSE transitions
    /\ finals' = finals

\* getNewFrame(isLive), get_new_frame returning NULL or a frame of F
getNewFrame(F) ==
    /\ pc = "idle"
    /\ IF ~(stream = "Open" /\ isRunning)
       THEN /\ ret' = "None"
            /\ Enter("getNewFrame")
            /\ UNCHANGED <<sessionVars, worldVars, pc, result, nPolls, obsVars>>
       ELSE \E res \in F \cup {NoFrame}, run \in {0, 1} :
               LET running == IF res.null THEN run ELSE res.isRunning IN
               IF running = 1 /\ res.null
               THEN /\ ret' = "None"
                    /\ Enter("getNewFrame")
                    /\ UNCHANGED <<sessionVars, worldVars, pc, result, nPolls, obsVars>>
               ELSE /\ nPolls < MaxPolls
                    /\ nPolls' = nPolls + 1
                    /\ IF running = 0
                       THEN CloseStart("getNewFrame", FALSE, res)
                       ELSE /\ ProcessFrame(res)
                            /\ Enter("getNewFrame")
                            /\ Observe(res.filename)
                            /\ ObserveMs(res)
    /\ UNCHANGED <<clipManager, clipVars, urlVars>>

\* getNewFrame(isLive)
GetNewFrame == getNewFrame(Frames)

\* getNewFrame(isLive) on an adapter whose timestamps are in no order
GetNewFrameAnyClock == getNewFrame(FramesAnyClock)

\* getNewFrame: self._addFileToDb() on a rollover, after its join
GnfSubmit ==
    /\ pc = "gnf_submit"
    /\ JoinReturned
    /\ addFileToDb
    /\ pc' = "gnf_track"
    /\ UNCHANGED <<stream, isRunning, segVars, mmapVars, clipManager, clipVars, urlVars,
                   moveFailedCalls, call, result, ret, closeVars, nPolls, obsVars>>

\* getNewFrame: the rest of the rollover block and of the call
GnfTrack ==
    /\ pc = "gnf_track"
    /\ NewSegment(curFilePath, result.ms)
    /\ ReturnFrame(result.ms)
    /\ UNCHANGED <<stream, isRunning, curFilePath, mmapVars, cachedProcSize,
                   clipManager, clipVars, urlVars, moveFailedCalls, call, closeVars, nPolls, obsVars>>

\* free_frame_data(byref(result)): releases the frame and clears the pointer
free_frame_data(res) == NoFrame

\* getNewFrame after the close() of a stopped stream: free the frame and
\* return None when no frame is left
GnfClosed ==
    /\ pc = "gnf_closed"
    /\ LET res == IF result.null THEN result ELSE free_frame_data(result) IN
       IF res.null
       THEN /\ ret' = "None"
            /\ pc' = "idle"
            /\ result' = NoFrame
            /\ UNCHANGED <<sessionVars, worldVars>>
       ELSE ProcessFrame(res)
    /\ UNCHANGED <<clipManager, clipVars, urlVars, call, closeVars, nPolls, obsVars>>

\* faulty variant: isRunning is set whether or not open_stream gave a handle
OpenStreamOptimistic ==
    /\ \E ok \in BOOLEAN :
          /\ stream' = IF ok THEN "Open" ELSE "Null"
          /\ isRunning' = TRUE
          /\ ret' = "True"
    /\ pc' = "idle"
    /\ UNCHANGED <<segVars, mmapVars, cachedProcSize, moverThread, clipManager, clipVars, urlVars,
                   worldVars, result, nPolls>>

\* open(): open_stream and the lines after it
OpenStream ==
    /\ \E ok \in BOOLEAN :
          /\ stream' = IF ok THEN "Open" ELSE "Null"
          /\ isRunning' = (ok \/ isRunning)
          /\ ret' = IF ok \/ isRunning THEN "True" ELSE "False"
    /\ pc' = "idle"
    /\ UNCHANGED <<segVars, mmapVars, cachedProcSize, moverThread, clipManager, clipVars, urlVars,
                   worldVars, result, nPolls>>

\* open(path, extras)
Open ==
    /\ pc = "idle"
    /\ IF stream = "Open"
       THEN CloseStart("open", FALSE, NoFrame) /\ UNCHANGED <<clipManager, clipVars, urlVars, nPolls>>
       ELSE OpenStream /\ Enter("open") /\ UNCHANGED obsVars

\* open(): the lines after its close()
OpenAfterClose ==
    /\ pc = "open_stream"
    /\ OpenStream
    /\ UNCHANGED <<call, closeVars, obsVars>>

\* flush(msNeeded): flush_output is called or not, nothing else happens
Flush ==
    /\ pc = "idle"
    /\ \E m \in MsNeeded : flushLog' = <<[msNeeded |-> m, out |-> Flushes(m)]>>
    /\ Begin("flush")
    /\ ret' = "None"
    /\ UNCHANGED <<sessionVars, clipManager, clipVars, urlVars, worldVars, pc, result, nPolls, obsVars>>

\* getProcSize()
GetProcSize ==
    /\ pc = "idle"
    /\ cachedProcSize' = getProcSize
    /\ UNCHANGED <<stream, isRunning, segVars, mmapVars, moverThread, clipManager, clipVars, urlVars,
                   worldVars, pollVars>>

\* setMmapParams(isLargeView=True, width=320, height=240, fps=0)
SetMmapParams ==
    /\ pc = "idle"
    /\ isMmapLargeView' = TRUE
    /\ mmapViewWidth' = 320
    /\ mmapViewHeight' = 240
    /\ mmapViewFps' = 0
    /\ UNCHANGED <<stream, isRunning, segVars, cachedProcSize, moverThread,
                   clipManager, clipVars, urlVars, worldVars, pollVars>>

Next ==
    \/ Open
    \/ OpenAfterClose
    \/ Close
    \/ CloseSubmit
    \/ CloseDrain
    \/ GetNewFrame
    \/ Flush
    \/ GnfSubmit
    \/ GnfTrack
    \/ GnfClosed
    \/ GetProcSize
    \/ SetMmapParams
    \/ MoverMkdir
    \/ MoverMove

Spec == Init /\ [][Next]_vars

\* the session on an adapter whose timestamps are in no order
NextAnyClock ==
    \/ Next
    \/ GetNewFrameAnyClock

SpecAnyClock == Init /\ [][NextAnyClock]_vars

\* The session with its threads scheduled: the mover thread, once started,
\* runs run() to its end (os.makedirs and the move return), and the
\* polling thread goes on inside a call once the join it waits in can
\* return.  The client is not bound to call anything.
Fairness ==
    /\ WF_vars(MoverMkdir \/ MoverMove)
    /\ WF_vars(GnfSubmit \/ GnfTrack \/ CloseSubmit \/ CloseDrain)

SpecFair == Spec /\ Fairness

\* ================================================== python/ClipReader.py
\* The clip reader (ClipReader) over its decode handles (FfMpegClipReader).
\* Its methods are sequential code that calls one another, so each is an
\* operator from the object's state before to its state after; an action
\* is one call of a client.

\* FfMpegClipReader objects that open the clip, over all opens
MaxReaders == 3

\* the timestamps of the frames of the clip, in file order
ClipMs == <<1, 3, 5>>

NumFrames == Len(ClipMs)

\* the length of the clip that get_clip_length reports
ClipLength == ClipMs[NumFrames] + 1

\* the offsets a client gives to seek and getFrameAt: before the first
\* frame, between two frames, after the last frame
MsOffsets == {0, 4, 6}

\* the values a client writes into the public field prevMs
PrevMsWrites == {-1, 3}

\* the resolution a client asks for in open, and the one in setOutputSize
OpenSize == <<4, 3>>

NewSize == <<2, 1>>

\* a value that is not None
Val(v) == [none |-> FALSE, val |-> v]

\* the state of the ClipReader object and of the readers it has allocated,
\* with what the call under way has done so far: its locals reader and
\* frame, the calls it made on FfMpegClipReader objects (ops), in order,
\* and the value it returns (ret)
Self ==
    [ firstReader |-> firstReader, randReader |-> randReader,
      seqReader |-> seqReader, path |-> path, width |-> width,
      height |-> height, prevMs |-> prevMs, readerPrevMs |-> readerPrevMs,
      isDone |-> isDone, duration |-> duration, msList |-> msList,
      readers |-> readers, ret |-> None, ops |-> <<>>, allocs |-> allocs,
      allocFailed |-> allocFailed, modes |-> modes,
      reader |-> 0, frame |-> None ]

\* a call made on the FfMpegClipReader object i
Op(i, name, arg) == [reader |-> i, op |-> name, arg |-> arg]

\* ------------------------------------------------ the decode library
Dist(i, ms) == IF ClipMs[i] >= ms THEN ClipMs[i] - ms ELSE ms - ClipMs[i]

\* the frame closest to the offset ms
Closest(ms) ==
    CHOOSE i \in 1 .. NumFrames :
        \A j \in 1 .. NumFrames :
            Dist(i, ms) < Dist(j, ms) \/ (Dist(i, ms) = Dist(j, ms) /\ i <= j)

\* get_next_frame: the frame after the position, NULL at the end of the clip
get_next_frame(r) ==
    IF r.pos < NumFrames
    THEN [rdr |-> [r EXCEPT !.pos = @ + 1], frame |-> Val(ClipMs[r.pos + 1])]
    ELSE [rdr |-> r, frame |-> None]

\* get_prev_frame: the frame before the position, NULL at the start
get_prev_frame(r) ==
    IF r.pos > 1
    THEN [rdr |-> [r EXCEPT !.pos = @ - 1], frame |-> Val(ClipMs[r.pos - 1])]
    ELSE [rdr |-> r, frame |-> None]

\* get_frame_at: the frame closest to the offset, or NULL on an error
get_frame_at(r, ms, ok) ==
    IF ok
    THEN [rdr |-> [r EXCEPT !.pos = Closest(ms)], frame |-> Val(ClipMs[Closest(ms)])]
    ELSE [rdr |-> r, frame |-> None]

\* ------------------------------------------------- FfMpegClipReader
\* FfMpegClipReader.open on a clip that opens: the handle, the output size
\* the library settled on, setMute(self._mute)
FfMpegClipReader(s) ==
    [clip |-> TRUE, pos |-> 0, mute |-> FALSE, width |-> s.width, height |-> s.height]

\* the method name of the reader i has run and left out behind
Called(s, i, name, arg, out) ==
    [s EXCEPT !.readers[i] = out.rdr,
              !.frame = out.frame,
              !.ops = Append(@, Op(i, name, arg))]

\* reader.getNextFrame()
FfGetNextFrame(s, i) ==
    Called(s, i, "getNextFrame", 0,
           IF s.readers[i].clip THEN get_next_frame(s.readers[i])
           ELSE [rdr |-> s.readers[i], frame |-> None])

\* reader.getPrevFrame()
FfGetPrevFrame(s, i) ==
    Called(s, i, "getPrevFrame", 0,
           IF s.readers[i].clip THEN get_prev_frame(s.readers[i])
           ELSE [rdr |-> s.readers[i], frame |-> None])

\* reader.getFrameAt(msOffset)
FfGetFrameAt(s, i, msOffset, ok) ==
    Called(s, i, "getFrameAt", msOffset,
           IF s.readers[i].clip THEN get_frame_at(s.readers[i], msOffset, ok)
           ELSE [rdr |-> s.readers[i], frame |-> None])

\* reader.seek(msOffset): return self.getFrameAt(msOffset)
FfSeek(s, i, msOffset, ok) ==
    Called(s, i, "seek", msOffset,
           IF s.readers[i].clip THEN get_frame_at(s.readers[i], msOffset, ok)
           ELSE [rdr |-> s.readers[i], frame |-> None])

\* reader.close(): the handle is freed and with it the position; _mute
\* stays in an object that its owner drops and nothing reads again
FfClose(s, i) ==
    Called(s, i, "close", 0,
           [rdr |-> [s.readers[i] EXCEPT !.clip = FALSE, !.pos = 0, !.mute = FALSE,
                                         !.width = 0, !.height = 0],
            frame |-> None])

\* reader.setMute(mute)
FfSetMute(s, i, mute) ==
    Called(s, i, "setMute", IF mute THEN 1 ELSE 0,
           [rdr |-> [s.readers[i] EXCEPT !.mute = mute], frame |-> None])

\* reader.setOutputSize(resolution)
FfSetOutputSize(s, i, resolution) ==
    Called(s, i, "setOutputSize", resolution[1],
           [rdr |-> [s.readers[i] EXCEPT !.width = resolution[1],
                                         !.height = resolution[2]],
            frame |-> None])

\* a method of the reader i that only reads: getDuration, getMsList,
\* getNextFrameOffset
FfQuery(s, i, name) ==
    Called(s, i, name, 0, [rdr |-> s.readers[i], frame |-> None])

\* ------------------------------------------------------- ClipReader
\* _allocReader with the clip opening (ok) or not: a reader, or None
allocReader(s, ok) ==
    IF ok /\ ~s.path.none
    THEN [s EXCEPT !.readers = Append(@, FfMpegClipReader(s)),
                   !.reader = Len(s.readers) + 1,
                   !.allocs = @ + 1,
                   !.ops = Append(@, Op(Len(s.readers) + 1, "open", 0))]
    ELSE [s EXCEPT !.reader = 0, !.allocFailed = TRUE]

\* _getAnyReader
getAnyReader(s) ==
    IF s.firstReader /= 0 THEN s.firstReader
    ELSE IF s.randReader /= 0 THEN s.randReader
    ELSE s.seqReader

\* faulty variant: the reader that open left is never handed on
FirstFreeNever(s) == FALSE

\* _getSeqReader, _getRandReader: self._firstReader is not None
FirstFree(s) == s.firstReader /= 0

\* faulty variant: the first slot is not cleared when its reader is claimed
getSeqReaderKeepsFirst(s, ok) ==
    LET u == [s EXCEPT !.modes = @ \cup {"seq"}] IN
    IF u.seqReader /= 0 THEN [u EXCEPT !.reader = u.seqReader]
    ELSE IF FirstFree(u)
         THEN [u EXCEPT !.seqReader = u.firstReader,
                        !.reader = u.firstReader]
         ELSE LET a == allocReader(u, ok) IN [a EXCEPT !.seqReader = a.reader]

\* _getSeqReader
getSeqReader(s, ok) ==
    LET u == [s EXCEPT !.modes = @ \cup {"seq"}] IN
    IF u.seqReader /= 0 THEN [u EXCEPT !.reader = u.seqReader]
    ELSE IF FirstFree(u)
         THEN [u EXCEPT !.seqReader = u.firstReader,
                        !.firstReader = 0,
                        !.reader = u.firstReader]
         ELSE LET a == allocReader(u, ok) IN [a EXCEPT !.seqReader = a.reader]

\* faulty variant: the random accessor does not take the reader open() left
getRandReaderFresh(s, ok) ==
    LET u == [s EXCEPT !.modes = @ \cup {"rand"}] IN
    IF u.randReader /= 0 THEN [u EXCEPT !.reader = u.randReader]
    ELSE LET a == allocReader(u, ok) IN [a EXCEPT !.randReader = a.reader]

\* _getRandReader
getRandReader(s, ok) ==
    LET u == [s EXCEPT !.modes = @ \cup {"rand"}] IN
    IF u.randReader /= 0 THEN [u EXCEPT !.reader = u.randReader]
    ELSE IF FirstFree(u)
         THEN [u EXCEPT !.randReader = u.firstReader,
                        !.firstReader = 0,
                        !.reader = u.firstReader]
         ELSE LET a == allocReader(u, ok) IN [a EXCEPT !.randReader = a.reader]

\* faulty variant: seek does not record where it left the reader
PositionedUntracked(s) ==
    IF s.frame.none
    THEN [s EXCEPT !.prevMs = -1, !.ret = None]
    ELSE [s EXCEPT !.prevMs = s.frame.val, !.ret = s.frame]

\* seek, the lines after reader.seek
Positioned(s) ==
    IF s.frame.none
    THEN [s EXCEPT !.readerPrevMs = -1, !.prevMs = -1, !.ret = None]
    ELSE [s EXCEPT !.readerPrevMs = s.frame.val,
                   !.prevMs = s.frame.val,
                   !.ret = s.frame]

\* seek(msOffset), the library finding the frame (found) or not
seek(s, msOffset, ok, found) ==
    LET u == getSeqReader(s, ok) IN
    IF u.reader = 0
    THEN [u EXCEPT !.ret = None]
    ELSE Positioned(FfSeek(u, u.reader, msOffset, found))

\* faulty variant: the two positions are never compared
DivergedNever(s) == FALSE

\* getNextFrame, getPrevFrame: self._readerPrevMs != self.prevMs
Diverged(s) == s.readerPrevMs /= s.prevMs

\* faulty variant: the end of the clip is not recorded
EndOfStreamUnmarked(s) ==
    [s EXCEPT !.readerPrevMs = -1, !.prevMs = -1, !.ret = None]

\* getNextFrame, reader.getNextFrame() having returned None
EndOfStream(s) ==
    [s EXCEPT !.readerPrevMs = -1, !.prevMs = -1, !.isDone = TRUE, !.ret = None]

\* faulty variant: a delivered frame ends the Done state
DeliveredUndone(s) ==
    [s EXCEPT !.readerPrevMs = s.frame.val,
              !.prevMs = s.frame.val,
              !.isDone = FALSE,
              !.ret = s.frame]

\* faulty variant: the reader's position is not recorded with the frame
DeliveredUntracked(s) ==
    [s EXCEPT !.prevMs = s.frame.val, !.ret = s.frame]

\* getNextFrame, reader.getNextFrame() having returned a frame
Delivered(s) ==
    [s EXCEPT !.readerPrevMs = s.frame.val,
              !.prevMs = s.frame.val,
              !.ret = s.frame]

\* getNextFrame()
getNextFrame(s, ok, found) ==
    LET u == IF Diverged(s) THEN seek(s, s.prevMs, ok, found) ELSE s
        v == getSeqReader(u, ok)
    IN  IF v.reader = 0
        THEN [v EXCEPT !.ret = None]
        ELSE LET w == FfGetNextFrame(v, v.reader) IN
             IF w.frame.none THEN EndOfStream(w) ELSE Delivered(w)

\* faulty variant: stepping back leaves the Done state as it was
SteppedBackDone(s) ==
    [s EXCEPT !.readerPrevMs = s.frame.val,
              !.prevMs = s.frame.val,
              !.ret = s.frame]

\* getPrevFrame, reader.getPrevFrame() having returned a frame
SteppedBack(s) ==
    [s EXCEPT !.readerPrevMs = s.frame.val,
              !.isDone = FALSE,
              !.prevMs = s.frame.val,
              !.ret = s.frame]

\* getPrevFrame()
getPrevFrame(s, ok, found) ==
    LET u == IF Diverged(s) THEN seek(s, s.prevMs, ok, found) ELSE s
        v == getSeqReader(u, ok)
    IN  IF v.reader = 0
        THEN [v EXCEPT !.ret = None]
        ELSE LET w == FfGetPrevFrame(v, v.reader) IN
             IF w.frame.none
             THEN [w EXCEPT !.readerPrevMs = -1, !.prevMs = -1, !.ret = None]
             ELSE SteppedBack(w)

\* faulty variant: getFrameAt reads through the sequential reader
FrameAtReaderSeq(s, ok) == getSeqReader(s, ok)

\* getFrameAt: reader = self._getRandReader()
FrameAtReader(s, ok) == getRandReader(s, ok)

\* getFrameAt(msOffset)
getFrameAt(s, msOffset, ok, found) ==
    LET u == FrameAtReader(s, ok) IN
    IF u.reader = 0
    THEN [u EXCEPT !.ret = None]
    ELSE LET w == FfGetFrameAt(u, u.reader, msOffset, found) IN
         [w EXCEPT !.ret = w.frame]
\* getDuration()
getDuration(s) ==
    IF ~s.duration.none
    THEN [s EXCEPT !.ret = s.duration]
    ELSE IF getAnyReader(s) = 0
         THEN [s EXCEPT !.ret = Val(-1)]
         ELSE [FfQuery(s, getAnyReader(s), "getDuration")
                  EXCEPT !.duration = Val(ClipLength), !.ret = Val(ClipLength)]

\* faulty variant: the cached list is never used
NoMsListAlways(s) == TRUE

\* not self._msList: None, or a list that is empty
NoMsList(s) == s.msList.none \/ s.msList.val = <<>>

\* getMsList(), the library giving the list (found) or nothing
getMsList(s, ok, found) ==
    IF ~NoMsList(s)
    THEN [s EXCEPT !.ret = s.msList]
    ELSE LET u == getRandReader(s, ok) IN
         IF u.reader = 0
         THEN [u EXCEPT !.ret = Val(<<>>)]
         ELSE LET l == Val(IF found THEN ClipMs ELSE <<>>) IN
              [FfQuery(u, u.reader, "getMsList") EXCEPT !.msList = l, !.ret = l]

\* getNextFrameOffset()
getNextFrameOffset(s, ok) ==
    LET u == getSeqReader(s, ok) IN
    IF u.reader = 0
    THEN [u EXCEPT !.ret = Val(-1)]
    ELSE [FfQuery(u, u.reader, "getNextFrameOffset")
             EXCEPT !.ret = Val(IF u.readers[u.reader].pos < NumFrames
                                THEN ClipMs[u.readers[u.reader].pos + 1]
                                ELSE -1)]

\* setMute(_mute)
setMute(s, mute) ==
    LET u == IF s.seqReader /= 0 THEN FfSetMute(s, s.seqReader, mute) ELSE s IN
    IF u.randReader /= 0 THEN FfSetMute(u, u.randReader, mute) ELSE u

\* setOutputSize(resolution)
setOutputSize(s, resolution) ==
    LET t == [s EXCEPT !.width = resolution[1], !.height = resolution[2]]
        u == IF t.firstReader /= 0
             THEN FfSetOutputSize(t, t.firstReader, resolution) ELSE t
        v == IF u.randReader /= 0
             THEN FfSetOutputSize(u, u.randReader, resolution) ELSE u
    IN  IF v.seqReader /= 0 THEN FfSetOutputSize(v, v.seqReader, resolution) ELSE v

\* markDone()
markDone(s) == [s EXCEPT !.isDone = TRUE]

\* faulty variant: the readers are dropped without being closed
resetUnclosed(s, forClose) ==
    [s EXCEPT !.seqReader = 0, !.randReader = 0, !.firstReader = 0,
              !.path = None, !.width = 0, !.height = 0,
              !.prevMs = -1, !.readerPrevMs = -1, !.isDone = FALSE,
              !.duration = None, !.msList = None]

\* _reset(forClose)
reset(s, forClose) ==
    LET t == IF forClose /\ s.firstReader /= 0 THEN FfClose(s, s.firstReader) ELSE s
        u == IF forClose /\ t.randReader /= 0 THEN FfClose(t, t.randReader) ELSE t
        v == IF forClose /\ u.seqReader /= 0 THEN FfClose(u, u.seqReader) ELSE u
    IN  [v EXCEPT !.seqReader = 0, !.randReader = 0, !.firstReader = 0,
                  !.path = None, !.width = 0, !.height = 0,
                  !.prevMs = -1, !.readerPrevMs = -1, !.isDone = FALSE,
                  !.duration = None, !.msList = None]

\* faulty variant: close() resets the fields and closes no reader
closeFieldsOnly(s) == reset(s, FALSE)

\* close()
close(s) == reset(s, TRUE)

\* open(filename, width, height, firstMs, extras), the clip opening (ok) or not
open(s, ok) ==
    LET u == [close(s) EXCEPT !.path = Val("clip"),
                              !.width = OpenSize[1], !.height = OpenSize[2],
                              !.allocs = 0, !.allocFailed = FALSE, !.modes = {}]
        a == allocReader(u, ok)
    IN  [a EXCEPT !.firstReader = a.reader, !.ret = Val(a.reader /= 0)]

\* a call of the client returns and leaves the state s behind
Returns(s) ==
    /\ Len(s.readers) <= MaxReaders
    /\ firstReader' = s.firstReader
    /\ randReader' = s.randReader
    /\ seqReader' = s.seqReader
    /\ path' = s.path
    /\ width' = s.width
    /\ height' = s.height
    /\ prevMs' = s.prevMs
    /\ readerPrevMs' = s.readerPrevMs
    /\ isDone' = s.isDone
    /\ duration' = s.duration
    /\ msList' = s.msList
    /\ readers' = s.readers
    /\ allocs' = s.allocs
    /\ allocFailed' = s.allocFailed
    /\ modes' = s.modes
    /\ UNCHANGED <<streamVars, urlVars>>

\* In each call the clip file opens or not (ok), and the decode library
\* finds what it is asked for or not (found), for the length of the call.
ClipOpen == \E ok \in BOOLEAN : Returns(open(Self, ok))

ClipClose == Returns(close(Self))

ClipGetNextFrame ==
    \E ok, found \in BOOLEAN : Returns(getNextFrame(Self, ok, found))

ClipGetPrevFrame ==
    \E ok, found \in BOOLEAN : Returns(getPrevFrame(Self, ok, found))

ClipSeek ==
    \E ms \in MsOffsets, ok, found \in BOOLEAN :
        Returns(seek(Self, ms, ok, found))

ClipGetFrameAt ==
    \E ms \in MsOffsets, ok, found \in BOOLEAN :
        Returns(getFrameAt(Self, ms, ok, found))

ClipGetDuration == Returns(getDuration(Self))

ClipGetMsList ==
    \E ok, found \in BOOLEAN : Returns(getMsList(Self, ok, found))

ClipGetNextFrameOffset ==
    \E ok \in BOOLEAN : Returns(getNextFrameOffset(Self, ok))

ClipSetMute == \E mute \in BOOLEAN : Returns(setMute(Self, mute))

ClipSetOutputSize == Returns(setOutputSize(Self, NewSize))

ClipMarkDone == Returns(markDone(Self))

\* the client writes the public field prevMs
ClipSetPrevMs ==
    \E ms \in PrevMsWrites : Returns([Self EXCEPT !.prevMs = ms])

NextClip ==
    \/ ClipOpen
    \/ ClipClose
    \/ ClipGetNextFrame
    \/ ClipGetPrevFrame
    \/ ClipSeek
    \/ ClipGetFrameAt
    \/ ClipGetDuration
    \/ ClipGetMsList
    \/ ClipGetNextFrameOffset
    \/ ClipSetMute
    \/ ClipSetOutputSize
    \/ ClipMarkDone
    \/ ClipSetPrevMs

\* a ClipReader and its client, beside a session that is never opened
InitClip == Init /\ ~clipManager

SpecClip == InitClip /\ [][NextClip]_vars

\* ============================= StreamReader._avoidBlankPasswordBug
\* A url is a sequence of tokens: a token is a delimiter character or a run
\* of characters that are no delimiters, so that find, split and startswith
\* work on tokens as they do on characters.

\* the longest authority part of the urls given
MaxAuthLen == 3

\* runs of letters; "u" is any name of a user, a host or a file
Words == {"http", "https", "HTTP", "rtsp", "device", "u"}

\* runs of digits
Digits == {"9"}

\* what the urls given start with
Schemes == {<<>>, <<"http">>, <<"https">>, <<"HTTP">>, <<"rtsp">>, <<"device">>}

\* what follows it
SchemeEnds == {<<>>, <<":">>, <<":", "/", "/">>}

\* the tokens of their authority parts
AuthTokens == {"u", "9", ":", "@", "[", "]"}

Authorities == UNION {[1 .. n -> AuthTokens] : n \in 0 .. MaxAuthLen}

\* what follows the authority
Tails == {<<>>, <<"/", "u">>, <<"?">>, <<"/", "u", "#">>}

\* the urls given to _avoidBlankPasswordBug
Urls == {s \o e \o a \o tl : s \in Schemes, e \in SchemeEnds, a \in Authorities, tl \in Tails}

\* c in s
In(c, s) == \E i \in DOMAIN s : s[i] = c

\* s.find(c) + 1: the place of the first c in s, 0 without one
Find(s, c) == IF In(c, s) THEN CHOOSE i \in DOMAIN s : s[i] = c /\ \A j \in 1 .. i - 1 : s[j] /= c
              ELSE 0

\* s.split(c, 1) of an s that holds c
Split(s, c) == << SubSeq(s, 1, Find(s, c) - 1), SubSeq(s, Find(s, c) + 1, Len(s)) >>

\* url[:i].lower() of a scheme
LowerScheme(s) == [i \in DOMAIN s |-> IF s[i] = "HTTP" THEN "http" ELSE s[i]]

\* url.startswith(head)
StartsWith(s, head) == Len(s) >= Len(head) /\ SubSeq(s, 1, Len(head)) = head

\* urlparse.urlsplit, the scheme: url[:i] of the first ':' when it holds
\* scheme characters only and what follows is not a port number
SplitScheme(s) ==
    LET i == Find(s, ":")
        rest == SubSeq(s, i + 1, Len(s))
    IN  IF i > 1 /\ SubSeq(s, 1, i - 1) = <<"http">>
        THEN [scheme |-> <<"http">>, url |-> rest]
        ELSE IF /\ i > 1
                /\ \A j \in 1 .. i - 1 : s[j] \in Words \cup Digits
                /\ (rest = <<>> \/ \E j \in DOMAIN rest : rest[j] \notin Digits)
        THEN [scheme |-> LowerScheme(SubSeq(s, 1, i - 1)), url |-> rest]
        ELSE [scheme |-> <<>>, url |-> s]

\* urlparse._splitnetloc(url, 2): the netloc ends before the first of / ? #
SplitNetloc(s) ==
    LET ends == {i \in 3 .. Len(s) : s[i] \in {"/", "?", "#"}}
        delim == IF ends = {} THEN Len(s) + 1
                 ELSE CHOOSE i \in ends : \A j \in ends : i <= j
    IN  [netloc |-> SubSeq(s, 3, delim - 1), url |-> SubSeq(s, delim, Len(s))]

\* urlparse.urlsplit: ValueError("Invalid IPv6 URL"), or the five parts
urlsplit(s) ==
    LET a == SplitScheme(s)
        b == IF StartsWith(a.url, <<"/", "/">>) THEN SplitNetloc(a.url)
             ELSE [netloc |-> <<>>, url |-> a.url]
        c == IF In("#", b.url) THEN Split(b.url, "#") ELSE <<b.url, <<>> >>
        d == IF In("?", c[1]) THEN Split(c[1], "?") ELSE <<c[1], <<>> >>
    IN  IF In("[", b.netloc) /= In("]", b.netloc)
        THEN [raises |-> TRUE]
        ELSE [raises |-> FALSE, scheme |-> a.scheme, netloc |-> b.netloc,
              path |-> d[1], query |-> d[2], fragment |-> c[2]]

\* urlparse.uses_netloc, the schemes of Schemes it holds
UsesNetloc == {<<"http">>, <<"https">>, <<"rtsp">>}

\* urlparse.urlunsplit
urlunsplit(scheme, netloc, pathPart, query, fragment) ==
    LET a == IF netloc /= <<>> \/ (scheme \in UsesNetloc /\ ~StartsWith(pathPart, <<"/", "/">>))
             THEN <<"/", "/">> \o netloc
                  \o (IF pathPart /= <<>> /\ pathPart[1] /= "/" THEN <<"/">> ELSE <<>>)
                  \o pathPart
             ELSE pathPart
        b == IF scheme /= <<>> THEN scheme \o <<":">> \o a ELSE a
        c == IF query /= <<>> THEN b \o <<"?">> \o query ELSE b
    IN  IF fragment /= <<>> THEN c \o <<"#">> \o fragment ELSE c

\* the call raised an exception
Raised == [none |-> FALSE, raises |-> TRUE]

\* the call returned the url v
Url(v) == [none |-> FALSE, raises |-> FALSE, val |-> v]

\* _avoidBlankPasswordBug(url)
avoidBlankPasswordBug(s) ==
    IF StartsWith(s, <<"device", ":">>) THEN Url(s)
    ELSE LET p == urlsplit(s) IN
         IF p.raises THEN Raised
         ELSE IF p.scheme \in {<<"http">>, <<"https">>} /\ In("@", p.netloc)
         THEN LET authPart == Split(p.netloc, "@")[1]
                  hostPart == Split(p.netloc, "@")[2]
              IN  IF authPart /= <<>> /\ ~In(":", authPart)
                  THEN Url(urlunsplit(p.scheme, authPart \o <<":", "@">> \o hostPart,
                                      p.path, p.query, p.fragment))
                  ELSE Url(s)
         ELSE Url(s)

\* a caller calls _avoidBlankPasswordBug(url)
AvoidBlankPasswordBug ==
    /\ fixed = None
    /\ fixed' = avoidBlankPasswordBug(url)
    /\ UNCHANGED <<url, streamVars, clipVars>>

\* the caller passes the url it got back in again
AvoidBlankPasswordBugAgain ==
    /\ fixed /= None /\ ~fixed.raises
    /\ url' = fixed.val
    /\ fixed' = avoidBlankPasswordBug(fixed.val)
    /\ UNCHANGED <<streamVars, clipVars>>

NextUrl == AvoidBlankPasswordBug \/ AvoidBlankPasswordBugAgain

\* a caller with a url, beside a session and a ClipReader that are not used
InitUrl == InitObjects /\ ~clipManager /\ url \in Urls /\ fixed = None

SpecUrl == InitUrl /\ [][NextUrl]_vars

\* ---------------------------------------------------------- properties
\* the movers whose relocation is running or whose commit is pending
InFlight == {i \in DOMAIN threads : isAlive(threads[i]) \/ threads[i].commits = 0}

\* the number of addClip calls made for the mover i
Commits(i) == Cardinality({k \in DOMAIN index : index[k].job = i})

\* the number of moveFailedCallback calls made for the mover i
FailedCalls(i) == Cardinality({k \in DOMAIN moveFailedCalls : moveFailedCalls[k].job = i})

\* the last close() has run to its end and no other call has begun since
CloseReturned == closeLog /= <<>> /\ closeLog[Len(closeLog)] = "reset"

Logged(e) == \E k \in DOMAIN closeLog : closeLog[k] = e

\* C1: at most one mover is in flight at any instant: every mover but the
\* last started is dead and has had its commit, so at most one mover has its
\* relocation running or its commit pending
C1_AtMostOneInFlight ==
    /\ Cardinality(InFlight) <= 1
    /\ \A i \in DOMAIN threads :
          i < Len(threads) => ~isAlive(threads[i]) /\ threads[i].commits >= 1

\* a second mover runs after the first one has finished and been committed
C1_Witness ==
    /\ Len(threads) >= 2
    /\ InFlight = {Len(threads)}
    /\ isAlive(threads[Len(threads)])

\* C2: when close() has returned on a session with a clip manager, every
\* mover ever started is dead and has exactly one commit in the clip index,
\* and the session holds no mover
C2_CloseCommitsAll ==
    (clipManager /\ CloseReturned) =>
        /\ moverThread = 0
        /\ \A i \in DOMAIN threads : ~isAlive(threads[i]) /\ Commits(i) = 1

\* a close() that submitted the segment in progress after an earlier
\* rollover has returned
C2_Witness ==
    /\ CloseReturned
    /\ Logged("submit")
    /\ Len(threads) >= 2
    /\ Len(index) = Len(threads)

\* C3: a segment whose relocation failed never gets a commit in the clip index
C3_NoCommitAfterFailedMove ==
    \A k \in DOMAIN index : threads[index[k].job].moved /= "failed"

\* C4: moveFailedCallback is called exactly once for a segment whose
\* relocation failed and never for one that was moved, on the mover's
\* thread, with the path under which the segment is recorded in the index
C4_MoveFailedCallback ==
    /\ \A i \in DOMAIN threads :
          FailedCalls(i) = IF threads[i].moved = "failed" THEN 1 ELSE 0
    /\ \A k \in DOMAIN moveFailedCalls :
          /\ moveFailedCalls[k].thread = "mover"
          /\ moveFailedCalls[k].path
                = addClip(threads[moveFailedCalls[k].job], "poll").path

\* C5: a failed relocation is not fatal: the step in which a move fails
\* changes nothing of the session, of the polling thread or of the index,
\* and a session that holds a stream handle is running
C5_FailureNotFatal ==
    /\ [](stream = "Open" => isRunning)
    /\ [][moveFailedCalls' /= moveFailedCalls =>
             UNCHANGED <<sessionVars, pollVars, index>>]_vars

\* after a failed relocation the session has returned a frame and the next
\* segment has been submitted, moved and committed
C5_Witness ==
    /\ Len(threads) >= 2
    /\ threads[1].moved = "failed"
    /\ threads[2].moved = "ok" /\ Commits(2) = 1
    /\ isRunning /\ stream = "Open" /\ ret = "Frame" /\ pc = "idle"

\* C6: the commits are made in the order of the submissions: the movers
\* of the addClip calls, in call order, are strictly increasing
C6_CommitOrder ==
    \A k1, k2 \in DOMAIN index : k1 < k2 => index[k1].job < index[k2].job

\* two segments have been committed while a third is being relocated
C6_Witness ==
    /\ Len(index) >= 2
    /\ Len(threads) >= 3
    /\ index[1].path /= index[2].path

\* C7: with a clip manager, the movers started (counting one about to be
\* started behind a join) are as many as the filename transitions the
\* adapter reported plus the close() calls that came after a frame of the
\* session; a close() that came before any frame submits nothing
C7_SubmissionCount ==
    clipManager =>
        /\ Len(threads) + (IF pc \in {"gnf_submit", "close_submit"} THEN 1 ELSE 0)
              = transitions + finals
        /\ (closeLog /= <<>> /\ ~closeMid) => ~Logged("submit")

\* a session with one rollover was closed, and a later session was closed
\* before any frame
C7_Witness ==
    /\ clipManager
    /\ transitions >= 1 /\ finals >= 1
    /\ CloseReturned /\ closeEntry /\ ~closeMid
    /\ Len(threads) = transitions + finals

\* C8: a getNewFrame that found the stream stopped has, on return, run the
\* whole close sequence, committed every segment including the one in
\* progress, left the session Closed and returned None
C8_StopCloses ==
    (call = "getNewFrame" /\ closeLog /= <<>> /\ pc = "idle") =>
        /\ ret = "None"
        /\ stream = "None" /\ ~isRunning /\ curFilename = <<>>
        /\ moverThread = 0
        /\ closeLog[1] = "flush" /\ closeLog[2] = "notRunning"
        /\ closeLog[3] = "free" /\ CloseReturned
        /\ (clipManager /\ closeMid) => Logged("submit")
        /\ \A i \in DOMAIN threads : ~isAlive(threads[i]) /\ Commits(i) = 1

\* getNewFrame has returned from a stop that came in the middle of a segment
C8_Witness ==
    /\ call = "getNewFrame" /\ pc = "idle" /\ CloseReturned
    /\ clipManager /\ closeMid /\ Logged("submit")
    /\ ret = "None"

\* the place of a step in the order close() is to follow
Rank(e) ==
    CASE e = "flush" -> 1
      [] e = "notRunning" -> 2
      [] e = "free" -> 3
      [] e = "commit" -> 4
      [] e = "submit" -> 4
      [] e = "kill" -> 5
      [] e = "reset" -> 6

\* C9: close() goes through flush, mark not running, free the handle,
\* submit the segment in progress, drain the mover and reset, in this order:
\* a close() of a session with a stream begins with these first three
\* steps, a submit is followed by a commit before the callback and the
\* reset, and killableCallback and the reset come only when no mover is
\* left alive or uncommitted
C9_CloseOrder ==
    /\ \A i, j \in DOMAIN closeLog :
          i < j => /\ Rank(closeLog[i]) <= Rank(closeLog[j])
                   /\ (closeLog[i] = closeLog[j] => closeLog[i] = "commit")
    /\ (closeEntry /\ closeLog /= <<>>) =>
          /\ Len(closeLog) >= 3
          /\ closeLog[1] = "flush"
          /\ closeLog[2] = "notRunning"
          /\ closeLog[3] = "free"
    /\ (closeLog /= <<>> /\ clipManager /\ closeMid /\ pc /= "close_submit")
          => Logged("submit")
    /\ (Logged("kill") \/ Logged("reset")) =>
          /\ InFlight = {}
          /\ moverThread = 0
          /\ \A i \in DOMAIN closeLog :
                closeLog[i] = "submit" =>
                    \E j \in DOMAIN closeLog : j > i /\ closeLog[j] = "commit"

\* a close() with a killableCallback has flushed, submitted the segment in
\* progress, committed it and called the callback
C9_Witness ==
    /\ CloseReturned
    /\ Logged("flush") /\ Logged("submit") /\ Logged("kill")
    /\ threads[Len(threads)].moved = "ok"

\* a step of a close() that was entered on a session without a stream
ClosedCloseStep ==
    /\ call' = "close"
    /\ ~closeEntry'
    /\ closeLog' /= closeLog

\* the session state is the one _initVariables leaves
Reset ==
    /\ stream = "None" /\ ~isRunning
    /\ prevFilename = <<>> /\ prevDirPath = <<>>
    /\ curFilePath = <<>> /\ curFilename = <<>> /\ curDirPath = <<>>
    /\ curStartMs = 0 /\ curLastMs = 0
    /\ ~isMmapLargeView
    /\ mmapViewWidth = 0 /\ mmapViewHeight = 0 /\ mmapViewFps = 0

\* C10 as claimed: close() on a Closed session calls neither flush nor
\* free, submits and commits nothing and leaves the session state unchanged
\* (a session without a handle stays without one)
C10_ClosedCloseNoOp ==
    [][ClosedCloseStep =>
          /\ UNCHANGED <<isRunning, segVars, mmapVars, cachedProcSize, moverThread,
                         worldVars>>
          /\ stream \in {"None", "Null"} /\ stream' \in {"None", "Null"}
          /\ \A k \in DOMAIN closeLog' : closeLog'[k] \in {"notRunning", "kill", "reset"}]_vars

\* C10 as amended: close() on a Closed session calls neither flush nor
\* free, submits and commits nothing, and leaves the session state
\* unchanged but for the mmap view parameters, which it resets; on a session
\* in the state close() leaves it changes nothing, so close;close is close
C10_ClosedCloseResets ==
    [][ClosedCloseStep =>
          /\ UNCHANGED <<isRunning, segVars, cachedProcSize, moverThread, worldVars>>
          /\ stream \in {"None", "Null"} /\ stream' \in {"None", "Null"}
          /\ \A k \in DOMAIN closeLog' : closeLog'[k] \in {"notRunning", "kill", "reset"}
          /\ (pc' = "idle" => Reset')
          /\ (Reset => UNCHANGED sessionVars)]_vars

\* a close() entered on a Closed session has returned, after an earlier
\* session had a segment committed
C10_Witness ==
    /\ call = "close" /\ ~closeEntry /\ CloseReturned
    /\ Reset
    /\ Len(index) >= 1

\* C11: every segment committed to the clip index has start-ms <= end-ms,
\* whatever filenames and timestamps the adapter delivers
C11_StartBeforeEnd ==
    \A k \in DOMAIN index : index[k].startMs <= index[k].endMs

PollOrFlushStep ==
    /\ call' \in {"getNewFrame", "flush"}
    /\ pc = "idle" /\ pc' = "idle"
    /\ <<call, ret, flushLog>>' /= <<call, ret, flushLog>>

\* C13: when open_stream gives no handle, open returns False and the
\* session is Closed: it is not running, every getNewFrame returns None and
\* every flush is dropped, neither reaching the adapter nor changing the
\* session, and only an open that succeeds makes the session run again
C13_FailedOpenStaysClosed ==
    /\ [](stream = "Null" => ~isRunning)
    /\ []((stream = "Null" /\ call = "open") => ret = "False")
    /\ [][(stream = "Null" /\ PollOrFlushStep) =>
             /\ UNCHANGED <<sessionVars, worldVars, nPolls>>
             /\ ret' = "None"
             /\ (flushLog' /= NoFlush => ~flushLog'[1].out)]_vars
    /\ [][(stream = "Null" /\ isRunning') =>
             (call' = "open" /\ stream' = "Open" /\ ret' = "True")]_vars

\* after an open that failed, on a session that had delivered frames
\* before, getNewFrame has returned None
C13_Witness ==
    /\ stream = "Null" /\ ~isRunning
    /\ call = "getNewFrame" /\ ret = "None" /\ pc = "idle"
    /\ nPolls >= 1

\* ------------------------------------------------ ClipReader properties
\* the readers the ClipReader holds
Held == {firstReader, randReader, seqReader} \ {0}

\* the calls a method made on readers it already had or had just opened
Calls(s) == SelectSeq(s.ops, LAMBDA o : o.op /= "open")

\* C14: while every allocation since open() has succeeded, the readers
\* allocated since that open() are one as long as at most one of
\* _getSeqReader and _getRandReader has been called and two once both have
\* been; never more than two are allocated for one open() or held
C14_HandleCount ==
    /\ Cardinality(Held) <= 2
    /\ allocs <= 2
    /\ (~path.none /\ ~allocFailed) =>
          allocs = IF modes = {"seq", "rand"} THEN 2 ELSE 1

\* after a second open() both accessors have been used: the first took the
\* reader open() left, the other one opened the clip again
C14_Witness ==
    /\ ~allocFailed /\ modes = {"seq", "rand"} /\ allocs = 2
    /\ firstReader = 0 /\ seqReader /= 0 /\ randReader /= 0
    /\ Len(readers) = 3

\* C15: seek(ms) works on the random-access reader and leaves the
\* sequential reader where it was
C15_SeekKeepsSequential ==
    \A ms \in MsOffsets, ok, found \in BOOLEAN :
        LET s == seek(Self, ms, ok, found) IN
        /\ \A k \in DOMAIN s.ops : s.ops[k].reader = s.randReader
        /\ s.seqReader = seqReader
        /\ seqReader /= 0 => s.readers[seqReader].pos = readers[seqReader].pos

C18_EndOfStream ==
    \A ok, found \in BOOLEAN :
        LET s == getNextFrame(Self, ok, found)
            last == s.ops[Len(s.ops)]
        IN  (/\ s.ops /= <<>>
             /\ last = Op(s.seqReader, "getNextFrame", 0)
             /\ s.readers[s.seqReader].pos = NumFrames
             /\ s.frame.none) =>
                /\ s.isDone
                /\ s.prevMs = -1 /\ s.readerPrevMs = -1
                /\ s.ret = None

\* getNextFrame has run off the end of the clip
C18_Witness ==
    /\ isDone /\ prevMs = -1 /\ readerPrevMs = -1
    /\ seqReader /= 0 /\ readers[seqReader].pos = NumFrames
    /\ getNextFrame(Self, TRUE, TRUE).ret = None

\* C19: once isDone is True it stays True across getNextFrame, getFrameAt,
\* getDuration, getMsList, getNextFrameOffset, setMute and setOutputSize
C19_DoneSticky ==
    isDone =>
        \A ms \in MsOffsets, ok, found, mute \in BOOLEAN :
            /\ getNextFrame(Self, ok, found).isDone
            /\ getFrameAt(Self, ms, ok, found).isDone
            /\ getDuration(Self).isDone
            /\ getMsList(Self, ok, found).isDone
            /\ getNextFrameOffset(Self, ok).isDone
            /\ setMute(Self, mute).isDone
            /\ setOutputSize(Self, NewSize).isDone

\* a Done reader has since delivered the last frame again, answered
\* getDuration and getMsList, been muted and been given a new output size
C19_Witness ==
    /\ isDone
    /\ prevMs = ClipMs[NumFrames] /\ readerPrevMs = prevMs
    /\ ~duration.none /\ ~msList.none
    /\ seqReader /= 0 /\ readers[seqReader].mute
    /\ width = NewSize[1]

\* C20: a seek that returns a frame ends the Done state, as close() and
\* open() do
C20_SeekEndsDone ==
    isDone =>
        /\ ~close(Self).isDone
        /\ \A ok \in BOOLEAN : ~open(Self, ok).isDone
        /\ \A ms \in MsOffsets, ok, found \in BOOLEAN :
               LET s == seek(Self, ms, ok, found) IN
               ~s.ret.none => ~s.isDone

Returned(s) == [s EXCEPT !.ret = None, !.ops = <<>>, !.reader = 0, !.frame = None]

C23_Memoized ==
    /\ ~duration.none =>
          LET s == getDuration(Self) IN
          s.ret = duration /\ s.ops = <<>> /\ s.duration = duration
    /\ duration.none =>
          LET s == getDuration(Self) IN
          IF Held = {}
          THEN s.ret = Val(-1) /\ s.ops = <<>> /\ s.duration.none
          ELSE s.ret = Val(ClipLength) /\ s.duration = s.ret
    /\ \A ok, found \in BOOLEAN :
          LET s == getMsList(Self, ok, found) IN
          IF ~msList.none /\ msList.val /= <<>>
          THEN s.ret = msList /\ s.ops = <<>> /\ s.msList = msList
          ELSE IF s.randReader = 0
          THEN s.ret = Val(<<>>) /\ Calls(s) = <<>> /\ s.msList = msList
          ELSE found => (s.ret = Val(ClipMs) /\ s.msList = s.ret)
    /\ close(Self).duration.none /\ close(Self).msList.none
    /\ \A ok \in BOOLEAN : open(Self, ok).duration.none /\ open(Self, ok).msList.none

\* both values are cached on an open clip whose readers are both in use
C23_Witness ==
    /\ duration = Val(ClipLength) /\ msList = Val(ClipMs)
    /\ seqReader /= 0 /\ randReader /= 0
    /\ getDuration(Self).ops = <<>>
    /\ getMsList(Self, TRUE, TRUE).ops = <<>>

\* C24: open() returns True exactly when the clip could be opened, and
\* then holds the new reader in _firstReader alone; when it returns False
\* it holds no reader; either way prevMs and _readerPrevMs are -1, isDone
\* is False, both caches are empty, and every reader held before was
\* closed before the new one was opened
C24_Open ==
    \A ok \in BOOLEAN :
        LET s == open(Self, ok) IN
        /\ s.ret = Val(ok)
        /\ s.seqReader = 0 /\ s.randReader = 0
        /\ IF ok
           THEN /\ s.firstReader = Len(s.readers)
                /\ s.firstReader \notin Held
                /\ s.readers[s.firstReader].clip
                /\ s.ops[Len(s.ops)] = Op(s.firstReader, "open", 0)
           ELSE s.firstReader = 0
        /\ s.prevMs = -1 /\ s.readerPrevMs = -1 /\ ~s.isDone
        /\ s.duration.none /\ s.msList.none
        /\ \A i \in Held :
              /\ ~s.readers[i].clip
              /\ \E k \in DOMAIN s.ops : s.ops[k] = Op(i, "close", 0)
        /\ \A k \in DOMAIN s.ops : s.ops[k].op = "open" => k = Len(s.ops)

\* an open() has failed after two readers were opened and closed: none is
\* held, and no accessor has been called since
C24_Witness ==
    /\ ~path.none /\ allocFailed /\ modes = {}
    /\ Held = {}
    /\ Len(readers) = 2 /\ \A i \in DOMAIN readers : ~readers[i].clip
    /\ prevMs = -1 /\ ~isDone /\ duration.none /\ msList.none

\* the authority of a url that starts with scheme://: what stands between
\* the // and the first / ? or #
Authority(s) ==
    LET ends == {i \in 5 .. Len(s) : s[i] \in {"/", "?", "#"}}
        end == IF ends = {} THEN Len(s) + 1 ELSE CHOOSE i \in ends : \A j \in ends : i <= j
    IN  SubSeq(s, 5, end - 1)

\* the url has the scheme http or https, in either case, and an authority
\* whose part before the @ is not empty and holds no ':'
BlankPassword(s) ==
    /\ \E scheme \in {"http", "https", "HTTP"} : StartsWith(s, <<scheme, ":", "/", "/">>)
    /\ In("@", Authority(s))
    /\ Split(Authority(s), "@")[1] /= <<>>
    /\ ~In(":", Split(Authority(s), "@")[1])

\* the url with a ':' put in before its @, the scheme in lower case
WithColon(s) ==
    LowerScheme(<<s[1]>>) \o SubSeq(s, 2, Find(s, "@") - 1) \o <<":">>
        \o SubSeq(s, Find(s, "@"), Len(s))

\* C25: _avoidBlankPasswordBug returns the url with a ':' put in before
\* the @ when the scheme is http or https and the part of the authority
\* before the @ is not empty and holds no ':', returns every other url
\* unchanged, and returns its own result unchanged
C25_AvoidBlankPasswordBug ==
    LET r == avoidBlankPasswordBug(url) IN
    /\ ~r.raises
    /\ r.val = IF BlankPassword(url) THEN WithColon(url) ELSE url
    /\ avoidBlankPasswordBug(r.val) = r

\* the fields a ThreadedFileMover copies from the session
Segment == <<prevFilename, prevDirPath, curFilename, curDirPath, curStartMs, curLastMs>>

\* C26: a frame of another file than the segment in progress starts
\* exactly one ThreadedFileMover while the session's segment fields are
\* still those of the old segment; the mover carries the timestamp of the
\* old segment's first frame as start and of its last frame as end, and
\* the new segment then starts at the timestamp of the frame that came
C26_RolloverSubmits ==
    [][/\ (pc = "idle" /\ pc' = "gnf_submit") =>
             /\ UNCHANGED <<Segment, threads>>
             /\ curFilename = basename(lastSeen)
             /\ result'.filename /= lastSeen
       /\ (pc = "gnf_submit" /\ pc' = "gnf_track") =>
             /\ UNCHANGED Segment
             /\ Len(threads') = Len(threads) + 1
             /\ moverThread' = Len(threads')
             /\ threads'[moverThread'].curFilename = curFilename
             /\ threads'[moverThread'].curFilename /= basename(result.filename)
             /\ threads'[moverThread'].curStartMs = prevSeenFirstMs
             /\ threads'[moverThread'].curLastMs = prevSeenLastMs
             /\ threads'[moverThread'].curLastMs < result.ms
       /\ (pc = "gnf_track" /\ pc' = "idle") =>
             /\ Len(threads') = Len(threads)
             /\ curFilename' = basename(result.filename)
             /\ curStartMs' = result.ms /\ curLastMs' = result.ms
             /\ curStartMs' = seenFirstMs
             /\ prevFilename' = threads[Len(threads)].curFilename]_vars

\* a segment of two frames, at 0 and at 1, has been handed to a mover by
\* a frame of another file at 2, and the new segment has begun
C26_Witness ==
    /\ pc = "idle" /\ call = "getNewFrame" /\ ret = "Frame"
    /\ Len(threads) = 1
    /\ threads[1].curStartMs = 0 /\ threads[1].curLastMs = 1
    /\ curStartMs = 2 /\ curLastMs = 2
    /\ prevFilename = threads[1].curFilename /\ curFilename /= prevFilename

\* what a ThreadedFileMover has copied from the session
Job(t) == <<t.prevFilename, t.prevDirPath, t.curFilename, t.curDirPath,
            t.curStartMs, t.curLastMs, t.procSize>>

Joining == pc \in {"gnf_submit", "close_submit", "close_drain"}

\* C28: the session's timing stats are touched by the polling thread only:
\* the timing report of a move into the session's _timeToMoveClipStat is
\* never made by the mover thread while the polling thread is free to run
\* (and to reset that same stat object in getNewFrame).
C28_StatsPollingThreadOnly ==
    [][\A i \in DOMAIN threads :
          (i \in DOMAIN threads' /\ threads[i].moveStat = "nobody"
                                /\ threads'[i].moveStat = "mover")
          => Joining]_vars

\* C29: the clip-index commit (addClip) of a mover is executed by the mover
\* thread, never by the polling thread.
C29_CommitOnMoverThread ==
    \A k \in DOMAIN index : index[k].thread = "mover"

\* a getNewFrame returns a frame in this step: in one step when the frame
\* is of the segment in progress or nothing is submitted, in the step
\* after the submit on a rollover
ReturnsFrame ==
    /\ pc \in {"idle", "gnf_track"} /\ pc' = "idle"
    /\ ret' = "Frame"
    /\ pc = "idle" => nPolls' = nPolls + 1

\* C30: the polling thread waits for the mover only where a segment is
\* submitted (rollover, close) and where close drains: it leaves these
\* points only once the mover is dead.  A getNewFrame that returns a frame
\* while a mover is running does not wait for it: the mover is still
\* running afterwards, still held by the session, and not yet committed.
C30_WaitsOnlyAtSubmitAndDrain ==
    [][/\ (Joining /\ pc' /= pc) => ~MoverAlive
       /\ (ReturnsFrame /\ MoverAlive) =>
             /\ MoverAlive'
             /\ UNCHANGED <<moverThread, threads, index>>]_vars

\* a frame of the segment in progress was returned while the mover of the
\* segment before it was still moving its file
C30_Witness ==
    /\ MoverAlive /\ threads[moverThread].pc = "move"
    /\ pc = "idle" /\ ret = "Frame"
    /\ curLastMs > curStartMs
    /\ index = <<>>

\* C31: the predecessor path of a committed segment is the path under which
\* the segment committed just before it was committed; the first commit
\* has no predecessor.
C31_PredecessorPath ==
    \A k \in DOMAIN index :
        index[k].prevFile /= <<>> =>
            k > 1 /\ index[k].prevFile = index[k - 1].path

\* C32: a mover whose target folder could not be created (os.makedirs
\* raised, an existing folder included) goes on to the move; it ends with
\* the file moved, or with the move failed and the failure callback called
\* once for its segment.
C32_MkdirFailureStillMoves ==
    [][\A i \in DOMAIN threads :
          /\ (threads[i].pc = "mkdir" /\ threads'[i].pc /= "mkdir") =>
                 /\ threads'[i].pc = "move"
                 /\ threads'[i].moved = "pending"
                 /\ moveFailedCalls' = moveFailedCalls
          /\ (threads[i].pc = "move" /\ ~threads[i].mkdirOk
                                   /\ threads'[i].pc /= "move") =>
                 /\ threads'[i].pc = "dead"
                 /\ threads'[i].moved \in {"ok", "failed"}
                 /\ threads'[i].moved = "failed" =>
                        moveFailedCalls' = Append(moveFailedCalls,
                            [path |-> join(threads[i].curDirPath,
                                           threads[i].curFilename),
                             job |-> i, thread |-> "mover"])
                 /\ threads'[i].moved = "ok" =>
                        moveFailedCalls' = moveFailedCalls]_vars

\* a mover is about to move its file after its target folder could not be
\* created
C32_Witness ==
    \E i \in DOMAIN threads :
        /\ threads[i].pc = "move" /\ ~threads[i].mkdirOk
        /\ threads[i].moved = "pending"

\* C33: the reader open() left in the first slot is there only until
\* _getSeqReader or _getRandReader is called: then it is in the slot of the
\* accessor called first and the first slot is empty until the next open().
\* A reader in the first slot means both mode slots are empty, and the two
\* mode slots never hold the same reader.
C33_FirstSlotClaimedOnce ==
    /\ firstReader /= 0 => (randReader = 0 /\ seqReader = 0 /\ modes = {})
    /\ modes /= {} => firstReader = 0
    /\ (seqReader /= 0 /\ randReader /= 0) => seqReader /= randReader
    /\ (~path.none /\ ~allocFailed /\ modes = {"seq"}) =>
          (seqReader = Len(readers) /\ randReader = 0 /\ allocs = 1)
    /\ (~path.none /\ ~allocFailed /\ modes = {"rand"}) =>
          (randReader = Len(readers) /\ seqReader = 0 /\ allocs = 1)

\* the random accessor was called first and has taken the reader of open()
C33_Witness ==
    /\ ~path.none /\ ~allocFailed /\ modes = {"rand"}
    /\ firstReader = 0 /\ seqReader = 0 /\ randReader = Len(readers)
    /\ allocs = 1

\* the sequential reader of the state s is the one held now, where it was
SeqReaderKept(s) ==
    /\ s.seqReader = seqReader
    /\ seqReader /= 0 => s.readers[seqReader] = readers[seqReader]

\* C34: while the ClipReader holds a reader, neither getDuration nor
\* getMsList opens the clip another time, and neither moves the sequential
\* reader.
C34_ReuseOpenReader ==
    Held /= {} =>
        \A ok, found \in BOOLEAN :
            /\ Len(getDuration(Self).readers) = Len(readers)
            /\ Len(getMsList(Self, ok, found).readers) = Len(readers)
            /\ SeqReaderKept(getDuration(Self))
            /\ SeqReaderKept(getMsList(Self, ok, found))

\* C34 as the code has it: getDuration asks a reader that is held and opens
\* nothing; getMsList asks the random-access reader, which is the one held
\* in the random or in the first slot, and only when both are empty a reader
\* that getMsList opens, never a third one of this open(); neither moves
\* the sequential reader.
C34_DurationAndMsListReaders ==
    \A ok, found \in BOOLEAN :
        LET d == getDuration(Self)
            l == getMsList(Self, ok, found)
        IN  /\ d.readers = readers
            /\ <<d.firstReader, d.randReader, d.seqReader>>
                   = <<firstReader, randReader, seqReader>>
            /\ \A k \in DOMAIN d.ops : d.ops[k].reader \in Held
            /\ (randReader /= 0 \/ firstReader /= 0 \/ ~NoMsList(Self)) =>
                   Len(l.readers) = Len(readers)
            /\ Len(l.readers) > Len(readers) =>
                   /\ Len(l.readers) = Len(readers) + 1
                   /\ l.randReader = Len(l.readers)
                   /\ l.allocs <= 2
            /\ \A k \in DOMAIN l.ops : l.ops[k].reader = l.randReader
            /\ SeqReaderKept(d)
            /\ SeqReaderKept(l)

\* only the sequential reader is held and no list is cached: getMsList
\* opens the clip a second time
C34_Witness ==
    /\ seqReader /= 0 /\ randReader = 0 /\ firstReader = 0
    /\ msList.none /\ ~path.none
    /\ Len(getMsList(Self, TRUE, TRUE).readers) = Len(readers) + 1
    /\ getDuration(Self).readers = readers

\* C35: every commit to the clip index carries the processing size the
\* adapter reports for the running stream.
C35_CommitCarriesProcSize ==
    \A k \in DOMAIN index : <<index[k].width, index[k].height>> = ProcSize

\* what getNextFrame, getPrevFrame and seek can return in this state
SequentialResults ==
    UNION { {getNextFrame(Self, ok, found), getPrevFrame(Self, ok, found)}
            \cup {seek(Self, ms, ok, found) : ms \in MsOffsets}
            : ok \in BOOLEAN, found \in BOOLEAN }

\* C36: when getNextFrame, getPrevFrame or seek returns, with a frame or
\* with None, prevMs equals _readerPrevMs, whatever the client had written
\* into prevMs.
C36_PositionsAgree ==
    \A r \in SequentialResults : r.prevMs = r.readerPrevMs

\* C36 as the code has it: the two agree when the call got the sequential
\* reader; a call that gets no reader returns None and leaves both fields
\* as they were.
C36_PositionsAgreeWithReader ==
    \A r \in SequentialResults :
        IF r.reader /= 0
        THEN /\ r.prevMs = r.readerPrevMs
             /\ r.ret.none => r.prevMs = -1
             /\ ~r.ret.none => r.prevMs = r.ret.val
        ELSE /\ r.ret.none
             /\ r.prevMs = prevMs
             /\ r.readerPrevMs = readerPrevMs

\* the client has written prevMs away from the reader's position and
\* getNextFrame returns a frame
C36_Witness ==
    /\ seqReader /= 0 /\ prevMs /= readerPrevMs
    /\ LET r == getNextFrame(Self, TRUE, TRUE) IN
           ~r.ret.none /\ r.prevMs = r.readerPrevMs /\ r.prevMs /= prevMs

\* the segment of the mover i is in the index
Committed(i) == i \in DOMAIN threads /\ threads[i].commits > 0

\* a close() is under way: the polling thread is at one of its joins
Closing == pc \in {"close_submit", "close_drain"}

\* C37: with the mover thread scheduled and its move returning, a segment
\* handed to a mover is committed to the index once the session is closed
\* or returns another frame: a close() under way comes to its end, and
\* at its end every mover started is committed; a getNewFrame that returns
\* a frame when the mover held by the session has ended commits that
\* mover's segment before it returns.
C37_EventuallyCommitted ==
    /\ []<>(~Closing)
    /\ [][(Closing /\ ~Closing') =>
             \A i \in DOMAIN threads' : threads'[i].commits > 0]_vars
    /\ [][(ReturnsFrame /\ moverThread /= 0 /\ ~MoverAlive) =>
             /\ threads'[moverThread].commits > 0
             /\ index' = Append(index, addClip(threads[moverThread], "poll"))
             /\ moverThread' = 0]_vars

\* a mover started on a rollover has ended and its segment was committed
\* by a later getNewFrame of the same capture, which returned a frame
C37_Witness ==
    /\ Len(threads) = 1 /\ Committed(1) /\ moverThread = 0
    /\ Len(index) = 1
    /\ pc = "idle" /\ call = "getNewFrame" /\ ret = "Frame"
    /\ stream = "Open" /\ isRunning
    /\ curFilename /= threads[1].curFilename
    /\ curLastMs > curStartMs

\* C38: after setMute(m) every reader the ClipReader holds, the one in the
\* first slot included, is muted as m says.
C38_SetMuteReachesAll ==
    \A m \in BOOLEAN :
        LET r == setMute(Self, m) IN
        \A i \in {r.firstReader, r.randReader, r.seqReader} \ {0} :
            r.readers[i].mute = m

\* C39: no reader is lost open: every reader that opened the clip and is
\* in none of the three slots has been closed.  close() closes the readers
\* held, empties the three slots and resets the position and the caches,
\* and a second close() changes nothing more.
C39_NoHandleLeak ==
    /\ \A i \in DOMAIN readers : i \notin Held => ~readers[i].clip
    /\ LET c == close(Self) IN
           /\ c.firstReader = 0 /\ c.randReader = 0 /\ c.seqReader = 0
           /\ \A i \in DOMAIN c.readers : ~c.readers[i].clip
           /\ { c.ops[k].reader : k \in DOMAIN c.ops } = Held
           /\ \A k \in DOMAIN c.ops : c.ops[k].op = "close"
           /\ c.path = None /\ c.width = 0 /\ c.height = 0
           /\ c.prevMs = -1 /\ c.readerPrevMs = -1 /\ ~c.isDone
           /\ c.duration = None /\ c.msList = None
           /\ close(c) = c

\* a ClipReader that held two readers has been closed
C39_Witness ==
    /\ Len(readers) >= 2 /\ Held = {} /\ path.none
    /\ allocs = 2 /\ modes = {"seq", "rand"}
    /\ \A i \in DOMAIN readers : ~readers[i].clip

\* no segment is in progress and none is remembered
NoSegment ==
    /\ prevFilename = <<>> /\ prevDirPath = <<>>
    /\ curFilePath = <<>> /\ curFilename = <<>> /\ curDirPath = <<>>
    /\ curStartMs = 0 /\ curLastMs = 0

\* C40: open() on a session that holds a stream goes through close()
\* first.  When open() comes to open_stream, the close sequence has run to
\* its end: the segment that was in progress has been handed to a mover,
\* every mover has ended and is committed, the session holds no mover and
\* no segment.  The first segment of every capture is committed without a
\* predecessor, every later one with the file of the segment before it.
C40_OpenClosesFirst ==
    [][/\ (pc = "idle" /\ stream = "Open" /\ call' = "open" /\ pc' /= "idle") =>
             /\ pc' = IF curFilename /= <<>> /\ clipManager
                      THEN "close_submit" ELSE "close_drain"
             /\ stream' = "Freed" /\ ~isRunning'
             /\ UNCHANGED <<segVars, moverThread, worldVars>>
       /\ pc = "open_stream" =>
             /\ call = "open" /\ closeEntry /\ CloseReturned
             /\ stream = "None" /\ ~isRunning
             /\ NoSegment
             /\ moverThread = 0
             /\ \A i \in DOMAIN threads :
                    ~isAlive(threads[i]) /\ Commits(i) = 1
             /\ clipManager => Len(threads) = transitions + finals
             /\ (clipManager /\ closeMid) =>
                    /\ Logged("submit")
                    /\ threads /= <<>>
                    /\ index[Len(index)].job = Len(threads)
                    /\ threads[Len(threads)].capture = finals
       /\ \A i \in DOMAIN threads :
             IF i = 1 \/ threads[i - 1].capture /= threads[i].capture
             THEN threads[i].prevFilename = <<>>
             ELSE threads[i].prevFilename = threads[i - 1].curFilename]_vars

\* open() on a running capture has closed it: the segment that was in
\* progress was moved and committed, and open() is about to open the stream
C40_Witness ==
    /\ pc = "open_stream" /\ call = "open"
    /\ clipManager /\ closeMid /\ Logged("submit")
    /\ threads /= <<>> /\ Len(index) = Len(threads)
    /\ threads[Len(threads)].moved = "ok"
    /\ NoSegment

TypeOK == pc \in {"idle", "close_submit", "close_drain", "gnf_submit", "gnf_track",
                  "gnf_closed", "open_stream"}

====
